---- MODULE Spec2Model ----
(***************************************************************************)
(* A model of the lucideverything news agent (agent.py) and of its client  *)
(* for the Insight Service (lucid_client.py).                              *)
(*                                                                         *)
(* Strings the code inspects character by character (the user message and  *)
(* what is cut out of it) are sequences of one-character strings.  Texts   *)
(* the code only builds and tests with startswith are sequences of string  *)
(* tokens.                                                                 *)
(***************************************************************************)
EXTENDS Naturals, Sequences, FiniteSets, TLC

VARIABLES
    pc,       \* where the turn in progress stands
    turns,    \* the number of turns started
    thread,   \* the thread of the turn
    state,    \* NewsAgent.state, the Session State in memory
    client,   \* the api_key of NewsAgent.lucid_client
    store,    \* the runtime's agent data, by store key
    nkeys,    \* the number of keys and tokens minted so far
    rt,       \* the calls the turn made on the runtime, in order
    sent,     \* the requests the turn sent to the Insight Service, in order
    checks,   \* the outcome of each credential check of the turn
    last_message, \* the user message the turn answers, as its fragments
    response, \* the text process_user_message returned
    exc,      \* the exception an except clause of run is handling
    pastFaults, \* the faults of the environment in the turns before
    pIn,      \* the message handed to the parser, as its fragments
    pOut,     \* what the parser made of it
    cIn,      \* the arguments and the service's answers of one summary call
    cOut,     \* what the call returned or raised, and the requests it sent
    conc,     \* the turns in progress at once, one per thread id
    tIn,      \* the arguments of one tweet-posting call and what Twitter does
    tOut      \* what the call posted and returned or raised

turnVars == <<pc, turns, thread, state, client, store, nkeys, rt, sent, checks,
              last_message, response, exc, pastFaults>>

parseVars == <<pIn, pOut>>

clientVars == <<cIn, cOut>>

concVars == <<conc>>

tweetVars == <<tIn, tOut>>

vars == <<pc, turns, thread, state, client, store, nkeys, rt, sent, checks,
          last_message, response, exc, pastFaults, pIn, pOut, cIn, cOut, conc,
          tIn, tOut>>

(***************************************************************************)
(* Bounds of the model.                                                    *)
(***************************************************************************)
\* The number of turns run one after another.
MaxTurns == 2

\* The number of faults of the environment in a run: a call on the runtime
\* that raises, an answer of the Insight Service other than the good one.
MaxFaults == 2

\* The longest message, in fragments, the parser is applied to.
MaxFrags == 4

\* The insight ids the service answers with are 0..MaxInsightId and 42.
MaxInsightId == 2

(***************************************************************************)
(* Character strings: str.lower, str.strip, str.split(sep), str.split(),   *)
(* "in".                                                                   *)
(***************************************************************************)
UpperCase == <<"A", "B", "C", "D", "E", "F", "G", "H", "I", "J", "K", "L", "M",
               "N", "O", "P", "Q", "R", "S", "T", "U", "V", "W", "X", "Y", "Z">>

LowerCase == <<"a", "b", "c", "d", "e", "f", "g", "h", "i", "j", "k", "l", "m",
               "n", "o", "p", "q", "r", "s", "t", "u", "v", "w", "x", "y", "z">>

UpperSet == {UpperCase[i] : i \in 1..Len(UpperCase)}

LowerOf == [c \in UpperSet |-> LowerCase[CHOOSE i \in 1..Len(UpperCase) : UpperCase[i] = c]]

LowerChar(c) == IF c \in UpperSet THEN LowerOf[c] ELSE c

\* str.lower()
Lower(s) == [i \in 1..Len(s) |-> LowerChar(s[i])]

\* The characters str.strip() and str.split() treat as whitespace.
IsSpace(c) == c \in {" ", "\t", "\n", "\r"}

\* p occurs in s at position i.
OccursAt(s, p, i) ==
    /\ i >= 1
    /\ i + Len(p) - 1 <= Len(s)
    /\ \A k \in 1..Len(p) : s[i + k - 1] = p[k]

\* The first position from i on at which p occurs in s, 0 when there is none.
RECURSIVE FindFrom(_, _, _)
FindFrom(s, p, i) ==
    IF i + Len(p) - 1 > Len(s) THEN 0
    ELSE IF OccursAt(s, p, i) THEN i
    ELSE FindFrom(s, p, i + 1)

\* s.find(p) + 1
FirstIndex(s, p) == FindFrom(s, p, 1)

\* p in s
Contains(s, p) == FirstIndex(s, p) # 0

\* s.split(sep): the pieces between the occurrences of sep, found left to right.
RECURSIVE Split(_, _)
Split(s, sep) ==
    LET i == FirstIndex(s, sep)
    IN  IF i = 0 THEN <<s>>
        ELSE <<SubSeq(s, 1, i - 1)>> \o Split(SubSeq(s, i + Len(sep), Len(s)), sep)

RECURSIVE LStrip(_)
LStrip(s) == IF s # <<>> /\ IsSpace(Head(s)) THEN LStrip(Tail(s)) ELSE s

RECURSIVE RStrip(_)
RStrip(s) ==
    IF s # <<>> /\ IsSpace(s[Len(s)]) THEN RStrip(SubSeq(s, 1, Len(s) - 1)) ELSE s

\* str.strip()
Strip(s) == RStrip(LStrip(s))

\* The length of the longest whitespace-free prefix of s.
RECURSIVE TokenLen(_)
TokenLen(s) == IF s = <<>> \/ IsSpace(Head(s)) THEN 0 ELSE 1 + TokenLen(Tail(s))

\* str.split() without a separator: the maximal whitespace-free pieces.
RECURSIVE SplitWS(_)
SplitWS(s) ==
    LET t == LStrip(s)
        n == TokenLen(t)
    IN  IF t = <<>> THEN <<>>
        ELSE <<SubSeq(t, 1, n)>> \o SplitWS(SubSeq(t, n + 1, Len(t)))

(***************************************************************************)
(* Python values.                                                          *)
(***************************************************************************)
None == "None"

\* What a call yields: a value, or an exception (named by its class).
Ret(v) == [raised |-> FALSE, exc |-> None, value |-> v]

Raise(e) == [raised |-> TRUE, exc |-> e, value |-> <<>>]

\* str(e) as it is put into a text.
ExcText(e) == "<" \o e \o ">"

\* A character string as one token of a text.
RECURSIVE Str(_)
Str(cs) == IF cs = <<>> THEN "" ELSE Head(cs) \o Str(Tail(cs))

(***************************************************************************)
(* LucidClient.  An answer of the Insight Service is what _make_request    *)
(* yields: "raise" (requests raised: no connection, a non-2xx status), or  *)
(* the decoded JSON.                                                       *)
(***************************************************************************)
\* LucidClient._make_request: the request as it is sent, headers included.
Request(key, method, path, body) ==
    [method |-> method, path |-> path, key |-> key, body |-> body]

\* A request sent, and the kind of answer it got.
Sent(req, answer) == [req |-> req, answer |-> answer]

\* The same for a summary request and for a retrieval, with the answer itself.
SentData(req, answer) == [req |-> req, answer |-> answer.kind, data |-> answer]

\* LucidClient.get_insight
GetInsightRequest(key, insight_id) ==
    Request(key, "GET", "/insights/{id}", [id |-> insight_id])

\* lines 126-131: the timeframe sent for a timespan.
Timeframe(timespan) ==
    IF timespan # <<>> /\ timespan[Len(timespan)] = "h" THEN timespan
    ELSE IF timespan # <<>> /\ timespan[Len(timespan)] = "d" THEN timespan
    ELSE timespan \o <<"h">>

\* A normalization that knows hours only.
StreamTimeframe_HoursOnly(timespan) ==
    IF timespan # <<>> /\ timespan[Len(timespan)] = "h" THEN timespan
    ELSE timespan \o <<"h">>

\* lines 193-198: the same, in create_stream_news_summary.
StreamTimeframe(timespan) ==
    IF timespan # <<>> /\ timespan[Len(timespan)] = "h" THEN timespan
    ELSE IF timespan # <<>> /\ timespan[Len(timespan)] = "d" THEN timespan
    ELSE timespan \o <<"h">>

DefaultTopics == <<"finance", "technology", "world">>

\* An answer to a summary POST: requests raised, or the decoded JSON, which is a
\* mapping ("dict") with some of success, insight_id and message, or is none.
PostAnswer(kind, success, has_id, insight_id, message) ==
    [kind |-> kind, success |-> success, has_id |-> has_id,
     insight_id |-> insight_id, message |-> message]

\* An answer to GET /insights/{id}.
GetAnswer(kind, has_content, content) ==
    [kind |-> kind, has_content |-> has_content, content |-> content]

\* response.get: only a mapping has it.
HasGet(answer) == answer.kind = "dict"

\* if insight_id: the id is present and not 0.
TruthyId(post) == post.has_id /\ post.insight_id # 0

\* summary = insight.get("content", ""); if summary:
TruthyContent(get) == get.has_content /\ get.content # <<>> /\ get.content # <<"">>

\* lines 154-171: the follow-up retrieval, once the POST answered success;
\* label and nolabel are the texts of the two fallback messages.
InsightText(post, get, label, nolabel) ==
    IF TruthyId(post)
    THEN IF get.kind = "dict" /\ TruthyContent(get)
         THEN Ret(get.content)
         ELSE Ret(<<label, ToString(post.insight_id)>>)
    ELSE Ret(<<nolabel>>)

\* Whether the call sends the GET: only after a success answer with an id.
SendsGet(post) == HasGet(post) /\ post.success /\ TruthyId(post)

\* The topics argument: absent (None) or a list.
TopicsArg(given, list) == [given |-> given, list |-> list]

\* lines 120-171, the body of the try block of create_news_summary.
NewsSummaryBody(query, topics, timespan, post, get) ==
    LET used_topics == IF ~topics.given \/ Len(topics.list) = 0
                       THEN DefaultTopics ELSE topics.list
    IN  IF post.kind = "raise" THEN Raise("RequestException")
        ELSE IF ~HasGet(post) THEN Raise("AttributeError")
        ELSE IF ~post.success
        THEN Ret(<<"Unable to generate news summary", ": ",
                   IF post.message = None THEN "Unknown error" ELSE post.message>>)
        ELSE InsightText(post, get, "News summary generated successfully. Insight ID: ",
                         "News summary request submitted, but no insight ID was returned.")

\* An except clause that catches the errors of requests only.
NewsSummaryHandler_RequestErrorsOnly(r) ==
    IF r.raised /\ r.exc = "RequestException"
    THEN Ret(<<"Unable to generate news summary", " due to an error: ", ExcText(r.exc)>>)
    ELSE r

\* lines 173-175: the except clause of create_news_summary.
NewsSummaryHandler(r) ==
    IF r.raised
    THEN Ret(<<"Unable to generate news summary", " due to an error: ", ExcText(r.exc)>>)
    ELSE r

\* A create_news_summary that sends the POST again when it raised.
NewsSummaryRequests_RetriesPost(key, query, timespan, post, get) ==
    LET first == SentData(Request(key, "POST", "/generate_keyword_news_summary",
                                  [user_prompt |-> query, timeframe |-> Timeframe(timespan),
                                   workspace_id |-> 1]),
                          post)
    IN  IF post.kind = "raise" THEN <<first, first>>
        ELSE <<first>> \o (IF SendsGet(post)
                           THEN <<SentData(GetInsightRequest(key, post.insight_id), get)>>
                           ELSE <<>>)

\* The requests create_news_summary sends.
NewsSummaryRequests(key, query, timespan, post, get) ==
    <<SentData(Request(key, "POST", "/generate_keyword_news_summary",
                       [user_prompt |-> query, timeframe |-> Timeframe(timespan),
                        workspace_id |-> 1]),
               post)>>
    \o (IF SendsGet(post)
        THEN <<SentData(GetInsightRequest(key, post.insight_id), get)>>
        ELSE <<>>)

\* A create_news_summary that sends the topics it uses along with the prompt.
CreateNewsSummary_SendsTopics(key, query, topics, timespan, post, get) ==
    LET used_topics == IF ~topics.given \/ Len(topics.list) = 0
                       THEN DefaultTopics ELSE topics.list
        plain == NewsSummaryRequests(key, query, timespan, post, get)
    IN  [result |-> NewsSummaryHandler(NewsSummaryBody(query, topics, timespan, post, get)),
         sent |-> [plain EXCEPT ![1].req.body =
                      [user_prompt |-> query, timeframe |-> Timeframe(timespan),
                       workspace_id |-> 1, topics |-> used_topics]]]

\* LucidClient.create_news_summary
CreateNewsSummary(key, query, topics, timespan, post, get) ==
    [result |-> NewsSummaryHandler(NewsSummaryBody(query, topics, timespan, post, get)),
     sent |-> NewsSummaryRequests(key, query, timespan, post, get)]

\* lines 191-239, the body of the try block of create_stream_news_summary.
StreamSummaryBody(stream_ids, workspace_id, timespan, user_prompt, post, get) ==
    IF post.kind = "raise" THEN Raise("RequestException")
    ELSE IF ~HasGet(post) THEN Raise("AttributeError")
    ELSE IF ~post.success
    THEN Ret(<<"Unable to generate stream news summary", ": ",
               IF post.message = None THEN "Unknown error" ELSE post.message>>)
    ELSE InsightText(post, get, "Stream news summary generated successfully. Insight ID: ",
                     "Stream news summary request submitted, but no insight ID was returned.")

\* lines 241-243: the except clause of create_stream_news_summary.
StreamSummaryHandler(r) ==
    IF r.raised
    THEN Ret(<<"Unable to generate stream news summary", " due to an error: ",
               ExcText(r.exc)>>)
    ELSE r

\* The requests create_stream_news_summary sends.
StreamSummaryRequests(key, stream_ids, workspace_id, timespan, user_prompt, post, get) ==
    <<SentData(Request(key, "POST", "/generate_stream_news_summary",
                       [stream_ids |-> stream_ids, workspace_id |-> workspace_id,
                        timeframe |-> StreamTimeframe(timespan),
                        user_prompt |-> user_prompt]),
               post)>>
    \o (IF SendsGet(post)
        THEN <<SentData(GetInsightRequest(key, post.insight_id), get)>>
        ELSE <<>>)

\* LucidClient.create_stream_news_summary
CreateStreamNewsSummary(key, stream_ids, workspace_id, timespan, user_prompt, post, get) ==
    [result |-> StreamSummaryHandler(
                    StreamSummaryBody(stream_ids, workspace_id, timespan, user_prompt,
                                      post, get)),
     sent |-> StreamSummaryRequests(key, stream_ids, workspace_id, timespan,
                                    user_prompt, post, get)]

(***************************************************************************)
(* The request parser of process_user_message.                             *)
(***************************************************************************)
TopicsMarker == <<"t", "o", "p", "i", "c", "s", ":">>

TimespanMarker == <<"t", "i", "m", "e", "s", "p", "a", "n", ":">>

DefaultTimespan == <<"2", "4", "h">>

\* topics_part = parts[1].strip(), parts = user_message.lower().split("topics:")
TopicsPart(message) == Strip(Split(Lower(message), TopicsMarker)[2])

\* The topics: [] without the marker, else the stripped comma-separated pieces
\* of topics_part (one piece when it holds no comma).
ParseTopics(message) ==
    IF Contains(Lower(message), TopicsMarker)
    THEN LET part == TopicsPart(message)
             pieces == Split(part, <<",">>)
         IN  IF Contains(part, <<",">>)
             THEN [i \in 1..Len(pieces) |-> Strip(pieces[i])]
             ELSE <<Strip(part)>>
    ELSE <<>>

\* A parser that does not trim the query.
ParseQuery_Untrimmed(message) == Split(Lower(message), TopicsMarker)[1]

\* The query: the message; with "topics:", the stripped text before it; with
\* "timespan:" and no "topics:" before it, the stripped text before "timespan:".
ParseQuery(message) ==
    LET low == Lower(message)
        q1 == IF Contains(low, TopicsMarker)
              THEN Strip(Split(low, TopicsMarker)[1])
              ELSE message
        before == Split(low, TimespanMarker)[1]
    IN  IF Contains(low, TimespanMarker) /\ ~Contains(Lower(before), TopicsMarker)
        THEN Strip(before)
        ELSE q1

\* A parser that takes all of the text after "timespan:" as the timespan.
TimespanTokens_WholeText(message) ==
    <<Strip(Split(Lower(message), TimespanMarker)[2])>>

\* parts[1].strip().split(), parts = user_message.lower().split("timespan:")
TimespanTokens(message) == SplitWS(Strip(Split(Lower(message), TimespanMarker)[2]))

\* The parse of lines 244-266: the triple, or the IndexError of [0] on an empty
\* token list.  The query and the topics are kept as tokens of text, the
\* timespan as characters (the client looks at its last one).
Parsed(query, topics, timespan) ==
    [raised |-> FALSE, exc |-> None, query |-> Str(query),
     topics |-> [i \in 1..Len(topics) |-> Str(topics[i])], timespan |-> timespan]

ParseError(e) ==
    [raised |-> TRUE, exc |-> e, query |-> "", topics |-> <<>>, timespan |-> <<>>]

Parse(message) ==
    IF Contains(Lower(message), TimespanMarker)
    THEN IF TimespanTokens(message) = <<>>
         THEN ParseError("IndexError")
         ELSE Parsed(ParseQuery(message), ParseTopics(message),
                     TimespanTokens(message)[1])
    ELSE Parsed(ParseQuery(message), ParseTopics(message), DefaultTimespan)

(***************************************************************************)
(* NewsAgent.  The operators below work on a record m of what a turn can   *)
(* change: the agent's state and client, the runtime's store, the calls    *)
(* made on the runtime (rt) and the requests sent to the Insight Service   *)
(* (sent), both in order, the outcome of each credential check (checks),   *)
(* and the number of keys and tokens minted so far (nkeys).                *)
(***************************************************************************)
Threads == {[id |-> "t1", parent_id |-> None], [id |-> "t2", parent_id |-> "t1"]}

ThreadIds == {th.id : th \in Threads}

\* An initialize_state that reads under the thread's own id.
LoadKey_OwnId(th) == th.id

\* line 66: the store key initialize_state reads.
LoadKey(th) == IF th.parent_id # None THEN th.parent_id ELSE th.id

\* A save_state that writes under the thread's own id.
SaveKey_OwnId(th) == th.id

\* line 96: the store key save_state writes.
SaveKey(th) == IF th.parent_id # None THEN th.parent_id ELSE th.id

DefaultState == [api_key |-> None, user_id |-> None, user_name |-> "LucidEverything User"]

NoData == [present |-> FALSE, value |-> DefaultState]

Data(value) == [present |-> TRUE, value |-> value]

\* A call on the runtime, and whether it returned (ok) or raised.
Call(name, arg, ok) == [call |-> name, arg |-> arg, ok |-> ok]

NoBody == [empty |-> TRUE]

\* The n-th key the Insight Service issues, the n-th token secrets.token_hex
\* yields, the user id issued with a key.
ServerKey(n) == "srv" \o ToString(n)

LocalToken(n) == "tok" \o ToString(n)

UserId(n) == "user" \o ToString(n)

\* LUCID_API_KEY is not set where the agent runs.
EnvApiKey == None

\* LucidClient.__init__, line 37: the key the client sends.
LucidClient(api_key) == IF api_key # None THEN api_key ELSE EnvApiKey

\* What an agent method yields: the changed m and a value, or an exception.
Done(m, v) == [raised |-> FALSE, exc |-> None, m |-> m, value |-> v]

Fail(e, m) == [raised |-> TRUE, exc |-> e, m |-> m, value |-> None]

\* NewsAgent.initialize_state; loadOk: get_agent_data_by_key returned.
InitializeState(m, th, loadOk) ==
    LET key == LoadKey(th)
        m1 == [m EXCEPT !.rt = Append(@, Call("get_agent_data_by_key", key, loadOk))]
    IN  IF loadOk /\ m.store[key].present
        THEN [m1 EXCEPT !.state = m.store[key].value]
        ELSE [m1 EXCEPT !.state = DefaultState]

\* A save_state that does not reach the store.
SaveState_Skipped(m, th, saveOk) == m

\* NewsAgent.save_state; saveOk: save_agent_data returned.
SaveState(m, th, saveOk) ==
    [m EXCEPT !.rt = Append(@, Call("save_agent_data",
                                    [key |-> SaveKey(th), value |-> m.state], saveOk)),
              !.store = IF saveOk THEN [@ EXCEPT ![SaveKey(th)] = Data(m.state)] ELSE @]

\* lines 125-150, the try block of create_api_key.  answer is the service's:
\* "issued" (a key and a user id), "no_key" (a mapping without api_key) or
\* "raise".
CreateApiKeyBody(m, th, answer, saveOk) ==
    LET req == Request(LucidClient(None), "POST", "/create_api_key",
                       [user_name |-> m.state.user_name])
        m1 == [m EXCEPT !.sent = Append(@, Sent(req, answer))]
        n == m.nkeys + 1
        api_key == IF answer = "issued" THEN ServerKey(n) ELSE LocalToken(n)
        m2 == [m1 EXCEPT !.nkeys = n,
                         !.state = [@ EXCEPT !.api_key = api_key,
                                             !.user_id = IF answer = "issued"
                                                         THEN UserId(n) ELSE @]]
    IN  IF answer = "raise"
        THEN Fail("RequestException", m1)
        ELSE Done(SaveState(m2, th, saveOk), api_key)

\* A create_api_key without its except clause.
CreateApiKeyHandler_Reraises(r, th, saveOk) == r

\* lines 151-157, the except clause of create_api_key.
CreateApiKeyHandler(r, th, saveOk) ==
    IF r.raised
    THEN LET n == r.m.nkeys + 1
             m2 == [r.m EXCEPT !.nkeys = n, !.state.api_key = LocalToken(n)]
         IN  Done(SaveState(m2, th, saveOk), LocalToken(n))
    ELSE r

\* NewsAgent.create_api_key
CreateApiKey(m, th, answer, saveOk) ==
    CreateApiKeyHandler(CreateApiKeyBody(m, th, answer, saveOk), th, saveOk)

\* NewsAgent.initialize_lucid_client
InitializeLucidClient(m, th, answer, saveOk) ==
    IF m.state.api_key = None
    THEN LET r == CreateApiKey(m, th, answer, saveOk)
         IN  IF r.raised THEN r
             ELSE Done([r.m EXCEPT !.client = LucidClient(r.value)], None)
    ELSE Done([m EXCEPT !.client = LucidClient(m.state.api_key)], None)

\* A check_api_key that keeps the client it has after minting a key.
CheckApiKeyBody_StaleClient(m, th, health, answer, saveOk) ==
    LET m1 == [m EXCEPT !.sent = Append(@, Sent(Request(m.client, "GET", "/health",
                                                        NoBody), health))]
        r0 == CreateApiKey(m, th, answer, saveOk)
    IN  IF m.state.api_key = None THEN (IF r0.raised THEN r0 ELSE Done(r0.m, TRUE))
        ELSE IF health = "raise" THEN Fail("RequestException", m1)
        ELSE IF health = "healthy" THEN Done(m1, TRUE)
        ELSE LET r == CreateApiKey(m1, th, answer, saveOk)
             IN  IF r.raised THEN r ELSE Done(r.m, TRUE)

\* A check_api_key that mints a key whatever the health check says.
CheckApiKeyBody_AlwaysRenews(m, th, health, answer, saveOk) ==
    LET m1 == [m EXCEPT !.sent = Append(@, Sent(Request(m.client, "GET", "/health",
                                                        NoBody), health))]
        r0 == CreateApiKey(m, th, answer, saveOk)
    IN  IF m.state.api_key = None THEN (IF r0.raised THEN r0 ELSE Done(r0.m, TRUE))
        ELSE IF health = "raise" THEN Fail("RequestException", m1)
        ELSE LET r == CreateApiKey(m1, th, answer, saveOk)
             IN  IF r.raised THEN r
                 ELSE Done([r.m EXCEPT !.client = LucidClient(r.m.state.api_key)], TRUE)

\* lines 166-189, the try block of check_api_key.  health is the service's
\* answer to GET /health: "healthy", "degraded" (any other status) or "raise".
CheckApiKeyBody(m, th, health, answer, saveOk) ==
    IF m.state.api_key = None
    THEN LET r == CreateApiKey(m, th, answer, saveOk)
         IN  IF r.raised THEN r ELSE Done(r.m, TRUE)
    ELSE LET m1 == [m EXCEPT !.sent = Append(@, Sent(Request(m.client, "GET", "/health",
                                                             NoBody), health))]
         IN  IF health = "raise" THEN Fail("RequestException", m1)
             ELSE IF health = "healthy" THEN Done(m1, TRUE)
             ELSE LET r == CreateApiKey(m1, th, answer, saveOk)
                  IN  IF r.raised THEN r
                      ELSE Done([r.m EXCEPT !.client = LucidClient(r.m.state.api_key)],
                                TRUE)

\* lines 190-200, the except clause of check_api_key.
CheckApiKeyHandler(r, th, answer, saveOk) ==
    IF r.raised
    THEN LET c == CreateApiKey(r.m, th, answer, saveOk)
         IN  IF c.raised THEN c
             ELSE Done([c.m EXCEPT !.client = LucidClient(c.m.state.api_key)], FALSE)
    ELSE r

\* NewsAgent.check_api_key; the call's outcome is noted in checks.
CheckApiKey(m, th, health, answer, saveOk) ==
    LET r == CheckApiKeyHandler(CheckApiKeyBody(m, th, health, answer, saveOk),
                                th, answer, saveOk)
        asked == m.state.api_key # None
    IN  IF r.raised THEN r
        ELSE [r EXCEPT !.m.checks = Append(@, [health |-> IF asked THEN health
                                                          ELSE "not asked",
                                               ret |-> r.value])]

ErrorPrefix == "Unable to generate news summary"

\* lines 214-224, the try block of generate_news_summary.
GenerateNewsSummaryBody(m, th, p, health, answer, saveOk, post, get) ==
    LET c == CheckApiKey(m, th, health, answer, saveOk)
        s == CreateNewsSummary(c.m.client, p.query, TopicsArg(TRUE, p.topics),
                               p.timespan, post, get)
        m1 == [c.m EXCEPT !.sent = @ \o s.sent]
    IN  IF c.raised THEN c
        ELSE IF s.result.raised THEN Fail(s.result.exc, m1)
        ELSE Done(m1, s.result.value)

\* lines 225-227, the except clause of generate_news_summary.
GenerateNewsSummaryHandler(r) ==
    IF r.raised
    THEN Done(r.m, <<ErrorPrefix, " due to an error: ", ExcText(r.exc)>>)
    ELSE r

\* NewsAgent.generate_news_summary
GenerateNewsSummary(m, th, p, health, answer, saveOk, post, get) ==
    GenerateNewsSummaryHandler(
        GenerateNewsSummaryBody(m, th, p, health, answer, saveOk, post, get))

\* ', '.join(topics)
RECURSIVE Join(_)
Join(topics) ==
    IF Len(topics) = 0 THEN ""
    ELSE IF Len(topics) = 1 THEN topics[1]
    ELSE topics[1] \o ", " \o Join(Tail(topics))

ProcessingNote == <<"Processing your request... This may take a moment.">>

\* lines 280-287: the summary and the three possible causes.
ErrorMessage(summary) ==
    summary \o <<"\n\n",
                 "This could be due to one of the following reasons:\n",
                 "1. The Lucid API server might be unavailable\n",
                 "2. There might be an issue with your API key\n",
                 "3. The query might be too complex or contain unsupported characters\n\n",
                 "Please try again with a simpler query, or try again later.">>

\* lines 291-298: the Markdown block; the time of day is "<now>".
FormattedSummary(p, summary) ==
    <<"# News Summary: ", p.query, "\n\n",
      "**Topics:** ", IF p.topics # <<>> THEN Join(p.topics) ELSE "General", "\n",
      "**Timespan:** ", Str(p.timespan), "\n\n">>
    \o summary
    \o <<"\n\n", "---\n", "*Summary generated at ", "<now>", "*">>

\* A test of the summary that looks for the text of the except clause only.
IsErrorSummary_ExceptOnly(summary) ==
    Len(summary) >= 2 /\ summary[1] = ErrorPrefix /\ summary[2] = " due to an error: "

\* summary.startswith("Unable to generate news summary")
IsErrorSummary(summary) == summary # <<>> /\ Head(summary) = ErrorPrefix

\* lines 239-300, the try block of process_user_message; p is the parse of
\* the message (lines 244-266); addOk: add_message returned.
ProcessUserMessageBody(m, th, p, addOk, health, answer, saveOk, post, get) ==
    LET m1 == [m EXCEPT !.rt = Append(@, Call("add_message", ProcessingNote, addOk))]
        g == GenerateNewsSummary(m1, th, p, health, answer, saveOk, post, get)
    IN  IF p.raised THEN Fail(p.exc, m)
        ELSE IF ~addOk THEN Fail("RuntimeError", m1)
        ELSE IF g.raised THEN g
        ELSE IF IsErrorSummary(g.value) THEN Done(g.m, ErrorMessage(g.value))
        ELSE Done(g.m, FormattedSummary(p, g.value))

\* lines 301-306, the except clause of process_user_message.
ProcessUserMessageHandler(r) ==
    IF r.raised
    THEN Done(r.m, <<"An error occurred while processing your request: ",
                     ExcText(r.exc), "\n\n",
                     "Please try again with a different query, or contact support if the issue persists.">>)
    ELSE r

\* NewsAgent.process_user_message
ProcessUserMessage(m, th, p, addOk, health, answer, saveOk, post, get) ==
    ProcessUserMessageHandler(
        ProcessUserMessageBody(m, th, p, addOk, health, answer, saveOk, post, get))

WelcomeMessage == <<"Welcome to the News Copilot! ...">>

PleaseProvide == <<"Please provide a query for news summarization.">>

\* lines 352 and 369: the reply of an except clause of run.
ErrorReply(e) == <<"An error occurred: ", ExcText(e)>>

NoThread == [id |-> None, parent_id |-> None]

\* No turn in progress on a thread.
NoTurn == [pc |-> "idle", state |-> DefaultState, client |-> None, seen |-> NoData,
           calls |-> <<>>, requests |-> <<>>]

NoTweet == [method |-> None]

\* The parts of the state a specification does not use.
ConcIdle == conc = [id \in ThreadIds |-> NoTurn]

TweetIdle == tIn = None /\ tOut = NoTweet

\* The turn's part of the state before any turn has run.
TurnIdle ==
    /\ pc = "idle"
    /\ turns = 0
    /\ thread = NoThread
    /\ state = DefaultState
    /\ client = None
    /\ store = [k \in ThreadIds |-> NoData]
    /\ nkeys = 0
    /\ rt = <<>>
    /\ sent = <<>>
    /\ checks = <<>>
    /\ last_message = <<>>
    /\ response = <<>>
    /\ exc = None
    /\ pastFaults = 0

(***************************************************************************)
(* The messages the parser is applied to: every concatenation of at most   *)
(* MaxFrags fragments, and the examples of the welcome message and of the  *)
(* documentation.  A message is written as the sequence of its fragments;  *)
(* FragChars spells a fragment out.                                        *)
(***************************************************************************)
Scenario1 == "AI regulation topics: policy, tech timespan: 7d"

WelcomeExample2 == "Latest tech news timespan: 48h"

FragChars(f) ==
    CASE f = "AI news " -> <<"A", "I", " ", "n", "e", "w", "s", " ">>
      [] f = "topics:" -> <<"t", "o", "p", "i", "c", "s", ":">>
      [] f = "Topics:" -> <<"T", "o", "p", "i", "c", "s", ":">>
      [] f = "timespan:" -> <<"t", "i", "m", "e", "s", "p", "a", "n", ":">>
      [] f = " pol, Tech " -> <<" ", "p", "o", "l", ",", " ", "T", "e", "c", "h", " ">>
      [] f = " 7D " -> <<" ", "7", "D", " ">>
      [] f = "x" -> <<"x">>
      [] f = Scenario1 ->
            <<"A", "I", " ", "r", "e", "g", "u", "l", "a", "t", "i", "o", "n", " ",
              "t", "o", "p", "i", "c", "s", ":", " ", "p", "o", "l", "i", "c", "y",
              ",", " ", "t", "e", "c", "h", " ", "t", "i", "m", "e", "s", "p", "a",
              "n", ":", " ", "7", "d">>
      [] f = WelcomeExample2 ->
            <<"L", "a", "t", "e", "s", "t", " ", "t", "e", "c", "h", " ", "n",
              "e", "w", "s", " ", "t", "i", "m", "e", "s", "p", "a", "n", ":",
              " ", "4", "8", "h">>

Frags == {"AI news ", "topics:", "Topics:", "timespan:", " pol, Tech ", " 7D ", "x"}

\* The characters of a message given by its fragments.
RECURSIVE Chars(_)
Chars(frags) == IF frags = <<>> THEN <<>> ELSE FragChars(Head(frags)) \o Chars(Tail(frags))

RECURSIVE Concats(_)
Concats(n) ==
    IF n = 0 THEN {<<>>}
    ELSE LET shorter == Concats(n - 1)
         IN  shorter \cup {Append(m, f) : m \in shorter, f \in Frags}

Messages == Concats(MaxFrags) \cup {<<Scenario1>>, <<WelcomeExample2>>}

NoResult == [raised |-> FALSE, exc |-> "not parsed"]

NoCall == [method |-> None]

ParseInit ==
    /\ pIn \in Messages
    /\ pOut = NoResult
    /\ cIn = None
    /\ cOut = NoCall
    /\ TurnIdle
    /\ ConcIdle
    /\ TweetIdle

\* The parsing step of process_user_message(user_message).
ParseApply ==
    /\ pOut = NoResult
    /\ pOut' = Parse(Chars(pIn))
    /\ UNCHANGED <<pIn, clientVars, turnVars, concVars, tweetVars>>

ParseNext == ParseApply

ParseSpec == ParseInit /\ [][ParseNext]_vars

(***************************************************************************)
(* Properties of the parser, over ParseSpec.                               *)
(***************************************************************************)
\* The message parsed, and its lower-cased text.
Text == Chars(pIn)

Low == Lower(Text)

HasParsed == pOut # NoResult

\* The positions of s at which p occurs.
MarkerAt(s, p) == {i \in 1..Len(s) : OccursAt(s, p, i)}

\* The end of the text that follows a marker at i: the position before the
\* next occurrence of p that does not overlap it, or the end of s.
SegmentEnd(s, p, i) ==
    LET later == {j \in MarkerAt(s, p) : j >= i + Len(p)}
    IN  IF later = {} THEN Len(s)
        ELSE (CHOOSE j \in later : \A k \in later : j <= k) - 1

\* The trimmed items of a comma-separated list, in order.
Items(list) ==
    LET pieces == Split(list, <<",">>)
    IN  [k \in 1..Len(pieces) |-> Str(Strip(pieces[k]))]

\* t is the first whitespace-delimited token of s.
IsFirstToken(t, s) ==
    /\ t # <<>>
    /\ \A k \in 1..Len(t) : ~IsSpace(t[k])
    /\ \E a \in 1..Len(s) :
          /\ \A k \in 1..(a - 1) : IsSpace(s[k])
          /\ SubSeq(s, a, a + Len(t) - 1) = t
          /\ a + Len(t) <= Len(s) => IsSpace(s[a + Len(t)])

\* C6: when a message holds "topics:" and, after it, "timespan:", the topics
\* extracted are the trimmed items of the text between the two markers: the
\* list is cut where the "timespan:" marker begins.  In particular
\* "AI regulation topics: policy, tech timespan: 7d" gives the query
\* "ai regulation", the topics policy and tech, and the timespan "7d".
C6_TopicsCutAtTimespan ==
    \A i \in MarkerAt(Low, TopicsMarker), j \in MarkerAt(Low, TimespanMarker) :
        ( /\ HasParsed /\ ~pOut.raised
          /\ MarkerAt(Low, TopicsMarker) = {i}
          /\ MarkerAt(Low, TimespanMarker) = {j}
          /\ i < j )
        => /\ pOut.topics = Items(SubSeq(Low, i + Len(TopicsMarker), j - 1))
           /\ pIn = <<Scenario1>> =>
                 /\ pOut.query = "ai regulation"
                 /\ pOut.topics = <<"policy", "tech">>
                 /\ pOut.timespan = <<"7", "d">>

\* C7 as the documentation states it: for a message made of a query text,
\* "topics:" and a comma-separated list, with no "timespan:", the query is the
\* text of the message before the marker, trimmed, the topics are the trimmed
\* list items in order, and the timespan is "24h".
C7_QueryIsTextBeforeMarker ==
    \A i \in MarkerAt(Low, TopicsMarker) :
        ( /\ HasParsed
          /\ MarkerAt(Low, TopicsMarker) = {i}
          /\ MarkerAt(Low, TimespanMarker) = {} )
        => /\ ~pOut.raised
           /\ pOut.query = Str(Strip(SubSeq(Text, 1, i - 1)))
           /\ pOut.topics = Items(SubSeq(Text, i + Len(TopicsMarker), Len(Text)))
           /\ pOut.timespan = DefaultTimespan

\* C7, amended: for such a message the query is the lower-cased text before
\* the marker, trimmed, the topics are the trimmed lower-cased list items in
\* order, and the timespan is "24h".
C7_LowerCasedQueryAndTopics ==
    \A i \in MarkerAt(Low, TopicsMarker) :
        ( /\ HasParsed
          /\ MarkerAt(Low, TopicsMarker) = {i}
          /\ MarkerAt(Low, TimespanMarker) = {} )
        => /\ ~pOut.raised
           /\ pOut.query = Str(Strip(SubSeq(Low, 1, i - 1)))
           /\ pOut.topics = Items(SubSeq(Low, i + Len(TopicsMarker), Len(Low)))
           /\ pOut.timespan = DefaultTimespan

\* A message with an upper-case marker and upper-case letters in the query
\* and in the list has been parsed.
C7_Witness ==
    /\ pIn = <<"AI news ", "Topics:", " pol, Tech ">>
    /\ HasParsed /\ ~pOut.raised
    /\ pOut.query = "ai news"
    /\ pOut.topics = <<"pol", "tech">>

\* C8 as the documentation states it: when "timespan:" is followed by at
\* least one token, the timespan is exactly the first whitespace-delimited
\* token of the message after the marker.
C8_FirstTokenAfterMarker ==
    \A i \in MarkerAt(Low, TimespanMarker) :
        ( /\ HasParsed
          /\ \A j \in MarkerAt(Low, TimespanMarker) : i <= j
          /\ SplitWS(SubSeq(Text, i + Len(TimespanMarker), Len(Text))) # <<>> )
        => /\ ~pOut.raised
           /\ pOut.timespan =
                  SplitWS(SubSeq(Text, i + Len(TimespanMarker), Len(Text)))[1]

\* C8, amended: when the text between the first "timespan:" and the next
\* "timespan:" (or the end of the message) holds at least one token, the
\* timespan is exactly the first whitespace-delimited token of that text,
\* lower-cased, and nothing of what follows the token.
C8_LowerCasedFirstToken ==
    \A i \in MarkerAt(Low, TimespanMarker) :
        LET segment == SubSeq(Low, i + Len(TimespanMarker),
                              SegmentEnd(Low, TimespanMarker, i))
        IN  ( /\ HasParsed
              /\ \A j \in MarkerAt(Low, TimespanMarker) : i <= j
              /\ \E k \in 1..Len(segment) : ~IsSpace(segment[k]) )
            => /\ ~pOut.raised
               /\ IsFirstToken(pOut.timespan, segment)

\* A message whose timespan token is in upper case and is followed by more
\* text has been parsed.
C8_Witness ==
    /\ pIn = <<"AI news ", "timespan:", " 7D ", "x">>
    /\ HasParsed /\ ~pOut.raised
    /\ pOut.timespan = <<"7", "d">>

(***************************************************************************)
(* One turn after another: run(env).                                       *)
(***************************************************************************)
Init ==
    /\ TurnIdle
    /\ pIn = <<>>
    /\ pOut = NoResult
    /\ cIn = None
    /\ cOut = NoCall
    /\ ConcIdle
    /\ TweetIdle

\* The record m of the turn in progress.
M == [state |-> state, client |-> client, store |-> store, nkeys |-> nkeys,
      rt |-> rt, sent |-> sent, checks |-> checks]

\* m as a new turn finds it: the store and the count of keys are kept.
FreshM == [state |-> DefaultState, client |-> None, store |-> store, nkeys |-> nkeys,
           rt |-> <<>>, sent |-> <<>>, checks |-> <<>>]

SetM(m) ==
    /\ state' = m.state
    /\ client' = m.client
    /\ store' = m.store
    /\ nkeys' = m.nkeys
    /\ rt' = m.rt
    /\ sent' = m.sent
    /\ checks' = m.checks

HealthAnswers == {"healthy", "degraded", "raise"}

KeyAnswers == {"issued", "no_key", "raise"}

\* The answers of the service to the summary requests of a turn.
TurnPostAnswers ==
    {PostAnswer("raise", FALSE, FALSE, 0, None),
     PostAnswer("dict", FALSE, FALSE, 0, "no data"),
     PostAnswer("dict", FALSE, FALSE, 0, "quota exceeded"),
     PostAnswer("dict", TRUE, FALSE, 0, None),
     PostAnswer("dict", TRUE, TRUE, 42, None)}

TurnGetAnswers ==
    {GetAnswer("raise", FALSE, <<>>),
     GetAnswer("dict", TRUE, <<"Markets rallied.">>)}

\* The user messages of a turn.
TurnMessages ==
    {<<"AI news ">>, <<Scenario1>>, <<"AI news ", "timespan:">>}

\* The faults of the environment met by the calls of the turn in progress.
GoodAnswers == {"healthy", "issued", "dict"}

Faults(m) ==
    Cardinality({i \in DOMAIN m.rt : ~m.rt[i].ok})
    + Cardinality({i \in DOMAIN m.sent : m.sent[i].answer \notin GoodAnswers})

\* The faults among the outcomes an action chooses.
Bad(ok) == IF ok THEN 0 ELSE 1

BadAnswer(a) == IF a \in GoodAnswers THEN 0 ELSE 1

\* The faults the run can still meet.
Budget == MaxFaults - pastFaults - Faults(M)

\* lines 362-366 and NewsAgent.__init__: the turn starts on some thread.
\* threadOk: get_thread returned; loopOk: get_event_loop returned.
Construct ==
    /\ pc \in {"idle", "returned", "escaped"}
    /\ turns < MaxTurns
    /\ turns' = turns + 1
    /\ pastFaults' = pastFaults + Faults(M)
    /\ last_message' = <<>>
    /\ response' = <<>>
    /\ \E th \in Threads, threadOk, loadOk, saveOk, loopOk \in BOOLEAN,
          answer \in KeyAnswers :
          /\ Bad(threadOk) + Bad(loadOk) + Bad(saveOk) + Bad(loopOk) + BadAnswer(answer)
                <= MaxFaults - pastFaults'
          /\ LET m0 == [FreshM EXCEPT !.rt = <<Call("get_thread", NoBody, threadOk)>>]
             IN  IF ~threadOk
                 THEN /\ thread' = NoThread
                      /\ SetM(m0)
                      /\ pc' = "run_except"
                      /\ exc' = "RuntimeError"
                 ELSE \E r \in {InitializeLucidClient(InitializeState(m0, th, loadOk),
                                                      th, answer, saveOk)} :
                      /\ thread' = th
                      /\ SetM(IF r.raised THEN r.m
                              ELSE [r.m EXCEPT !.rt = Append(@, Call("get_event_loop",
                                                                     NoBody, loopOk))])
                      /\ pc' = IF r.raised \/ ~loopOk THEN "run_except" ELSE "check"
                      /\ exc' = IF r.raised THEN r.exc
                                ELSE IF ~loopOk THEN "RuntimeError" ELSE None
    /\ UNCHANGED <<parseVars, clientVars, concVars,
                   tweetVars>>

\* line 314: the credential check at startup.
RunCheckApiKey ==
    /\ pc = "check"
    /\ \E health \in HealthAnswers, answer \in KeyAnswers, saveOk \in BOOLEAN :
          /\ BadAnswer(health) + BadAnswer(answer) + Bad(saveOk) <= Budget
          /\ \E r \in {CheckApiKey(M, thread, health, answer, saveOk)} :
                /\ SetM(r.m)
                /\ pc' = IF r.raised THEN "agent_except" ELSE "list"
                /\ exc' = IF r.raised THEN r.exc ELSE None
    /\ UNCHANGED <<turns, thread, last_message, response, pastFaults, parseVars,
                   clientVars, concVars, tweetVars>>

\* A call on the runtime that returns nothing: it is noted in rt, and the turn
\* goes on at pc next, or at pc onRaise when the call raises.
RuntimeCall(calls, name, arg, next, onRaise) ==
    \E ok \in BOOLEAN :
        /\ Bad(ok) <= Budget
        /\ rt' = rt \o calls \o <<Call(name, arg, ok)>>
        /\ pc' = IF ok THEN next ELSE onRaise
        /\ exc' = IF ok THEN None ELSE "RuntimeError"

\* lines 317-336: the message history.  It is empty, or ends with a message
\* that is not the user's or is empty, or ends with the user's message;
\* list_messages may raise.
ListMessages ==
    /\ pc = "list"
    /\ \/ /\ 1 <= Budget
          /\ rt' = Append(rt, Call("list_messages", NoBody, FALSE))
          /\ pc' = "agent_except"
          /\ exc' = "RuntimeError"
          /\ UNCHANGED last_message
       \/ \E text \in {WelcomeMessage, PleaseProvide} :
             /\ RuntimeCall(<<Call("list_messages", NoBody, TRUE),
                              Call("add_reply", text, TRUE)>>,
                            "request_user_input", NoBody, "returned", "agent_except")
             /\ UNCHANGED last_message
       \/ \E msg \in TurnMessages :
             /\ last_message' = msg
             /\ rt' = Append(rt, Call("list_messages", NoBody, TRUE))
             /\ pc' = "process"
             /\ UNCHANGED exc
    /\ UNCHANGED <<turns, thread, state, client, store, nkeys, sent, checks,
                   response, pastFaults, parseVars, clientVars, concVars,
                   tweetVars>>

\* line 339: response = await self.process_user_message(last_message)
ProcessMessage ==
    /\ pc = "process"
    /\ \E p \in {Parse(Chars(last_message))} :
       \E addOk, saveOk \in BOOLEAN, health \in HealthAnswers, answer \in KeyAnswers,
          post \in TurnPostAnswers, get \in TurnGetAnswers :
          /\ Bad(addOk) + Bad(saveOk) + BadAnswer(health) + BadAnswer(answer)
                + BadAnswer(post.kind) + BadAnswer(get.kind) <= Budget
          /\ \E r \in {ProcessUserMessage(M, thread, p, addOk, health, answer, saveOk,
                                          post, get)} :
                /\ SetM(r.m)
                /\ response' = IF r.raised THEN <<>> ELSE r.value
                /\ pc' = IF r.raised THEN "agent_except" ELSE "reply"
                /\ exc' = IF r.raised THEN r.exc ELSE None
    /\ UNCHANGED <<turns, thread, last_message, pastFaults, parseVars, clientVars, concVars,
                   tweetVars>>

\* line 342: self.env.add_reply(response)
AddReply ==
    /\ pc = "reply"
    /\ rt' = Append(rt, Call("add_reply", response, TRUE))
    /\ pc' = "write_html"
    /\ UNCHANGED <<turns, thread, state, client, store, nkeys, sent, checks,
                   last_message, response, exc, pastFaults, parseVars, clientVars, concVars,
                   tweetVars>>

\* line 345: self.env.write_file("result.html", response)
WriteHtml ==
    /\ pc = "write_html"
    /\ RuntimeCall(<<>>, "write_file", [name |-> "result.html", content |-> response],
                   "write_txt", "agent_except")
    /\ UNCHANGED <<turns, thread, state, client, store, nkeys, sent, checks,
                   last_message, response, pastFaults, parseVars, clientVars, concVars,
                   tweetVars>>

\* A run that goes on to request input without writing result.txt.
WriteTxt_Skipped ==
    /\ pc = "write_txt"
    /\ pc' = "request_input"
    /\ UNCHANGED <<turns, thread, state, client, store, nkeys, rt, sent, checks,
                   last_message, response, exc, pastFaults, parseVars, clientVars, concVars,
                   tweetVars>>

\* line 346: self.env.write_file("result.txt", response)
WriteTxt ==
    /\ pc = "write_txt"
    /\ RuntimeCall(<<>>, "write_file", [name |-> "result.txt", content |-> response],
                   "request_input", "agent_except")
    /\ UNCHANGED <<turns, thread, state, client, store, nkeys, sent, checks,
                   last_message, response, pastFaults, parseVars, clientVars, concVars,
                   tweetVars>>

\* line 349: self.env.request_user_input()
RequestUserInput ==
    /\ pc = "request_input"
    /\ RuntimeCall(<<>>, "request_user_input", NoBody, "returned", "agent_except")
    /\ UNCHANGED <<turns, thread, state, client, store, nkeys, sent, checks,
                   last_message, response, pastFaults, parseVars, clientVars, concVars,
                   tweetVars>>

\* An except clause of NewsAgent.run that only requests input.
AgentExcept_Silent ==
    /\ pc = "agent_except"
    /\ RuntimeCall(<<>>, "request_user_input", NoBody, "returned", "run_except")
    /\ UNCHANGED <<turns, thread, state, client, store, nkeys, sent, checks,
                   last_message, response, pastFaults, parseVars, clientVars, concVars,
                   tweetVars>>

\* lines 350-353, the except clause of NewsAgent.run: reply with the error and
\* request input; what that raises goes on to run.
AgentExcept ==
    /\ pc = "agent_except"
    /\ RuntimeCall(<<Call("add_reply", ErrorReply(exc), TRUE)>>,
                   "request_user_input", NoBody, "returned", "run_except")
    /\ UNCHANGED <<turns, thread, state, client, store, nkeys, sent, checks,
                   last_message, response, pastFaults, parseVars, clientVars, concVars,
                   tweetVars>>

\* lines 367-370, the except clause of run; what it raises leaves run.
RunExcept ==
    /\ pc = "run_except"
    /\ RuntimeCall(<<Call("add_reply", ErrorReply(exc), TRUE)>>,
                   "request_user_input", NoBody, "returned", "escaped")
    /\ UNCHANGED <<turns, thread, state, client, store, nkeys, sent, checks,
                   last_message, response, pastFaults, parseVars, clientVars, concVars,
                   tweetVars>>

Next ==
    \/ Construct
    \/ RunCheckApiKey
    \/ ListMessages
    \/ ProcessMessage
    \/ AddReply
    \/ WriteHtml
    \/ WriteTxt
    \/ RequestUserInput
    \/ AgentExcept
    \/ RunExcept

Spec == Init /\ [][Next]_vars

(***************************************************************************)
(* Properties of the turns, over Spec.                                     *)
(***************************************************************************)
TurnOver == pc \in {"returned", "escaped"}

\* The positions in rt of the calls of a runtime method, and in sent of the
\* requests to a path.
Calls(name) == {i \in DOMAIN rt : rt[i].call = name}

Requests(path) == {i \in DOMAIN sent : sent[i].req.path = path}

SummaryPath == "/generate_keyword_news_summary"

KeyPath == "/create_api_key"

\* The requests and the runtime calls a step adds (a new turn starts both
\* logs afresh).
NewRequests ==
    IF TurnOver \/ pc = "idle" THEN DOMAIN sent' ELSE (Len(sent) + 1)..Len(sent')

NewCalls ==
    IF TurnOver \/ pc = "idle" THEN DOMAIN rt' ELSE (Len(rt) + 1)..Len(rt')

\* C1: a turn that is over, however it ended (run returned, or an exception
\* left run), has emitted at least one reply through the runtime: whatever
\* the history, whatever the Insight Service answered, whichever runtime
\* calls other than add_reply raised.
C1_EveryTurnReplies == TurnOver => Calls("add_reply") # {}

\* A turn on a user message has returned after the Insight Service raised
\* and a runtime call raised.
C1_Witness ==
    /\ pc = "returned"
    /\ last_message # <<>>
    /\ \E i \in DOMAIN sent : sent[i].answer = "raise"
    /\ \E i \in DOMAIN rt : ~rt[i].ok
    /\ Calls("add_reply") # {}

\* C3: every summary request of a turn carries the key held in the session
\* state and by the client, and the last health check before it either
\* answered healthy, or was followed by a key-creation request and the key
\* sent is no longer the one that was checked.
C3_SummaryCarriesStateKey ==
    \A i \in Requests(SummaryPath) :
        LET key == sent[i].req.key
            asked == {j \in Requests("/health") : j < i}
            last == CHOOSE j \in asked : \A k \in asked : k <= j
        IN  /\ key # None
            /\ key = state.api_key
            /\ key = client
            /\ asked # {}
            /\ \/ /\ sent[last].answer = "healthy"
                  /\ sent[last].req.key = key
                  /\ last + 1 = i
               \/ /\ sent[last].answer # "healthy"
                  /\ sent[last + 1].req.path = KeyPath
                  /\ last + 2 = i
                  /\ key # sent[last].req.key

\* A summary request has been sent after a health check that did not answer
\* healthy.
C3_Witness ==
    \E i \in Requests(SummaryPath), j \in Requests("/health") :
        /\ j < i
        /\ sent[j].answer # "healthy"
        /\ sent[i].req.key = state.api_key
        /\ sent[i].req.key # sent[j].req.key

\* A step in which check_api_key ran and its health check answered healthy.
HealthyCheck ==
    /\ Len(checks') = Len(checks) + 1
    /\ checks'[Len(checks')].health = "healthy"

\* C4: a credential check with a cached key whose health check answers
\* healthy sends the health check and no key-creation request, and leaves the
\* session state, the store, the client and the count of keys minted as they
\* were; so does any number of such checks in a row.
C4_HealthyCheckKeepsKey ==
    [][HealthyCheck =>
          /\ state.api_key # None
          /\ state' = state
          /\ client' = client
          /\ store' = store
          /\ nkeys' = nkeys
          /\ \A i \in NewRequests : sent'[i].req.path # KeyPath
          /\ \E i \in NewRequests :
                sent'[i] = Sent(Request(client, "GET", "/health", NoBody), "healthy")
      ]_vars

\* Both credential checks of a turn that found its key in the store answered
\* healthy, and the turn has sent no key-creation request.
C4_Witness ==
    /\ Len(checks) = 2
    /\ \A i \in DOMAIN checks : checks[i].health = "healthy" /\ checks[i].ret
    /\ Requests(KeyPath) = {}
    /\ thread # NoThread
    /\ store[LoadKey(thread)] = Data(state)
    /\ client = state.api_key

\* C5: a step in which a key-creation request is sent leaves a key in the
\* session state and no exception of the request behind; when the request
\* raised or its answer held no api_key, the key is the token generated
\* locally, save_state has been called with it (and the store holds it when
\* save_agent_data returned), the startup check goes on to the history, and
\* process_user_message goes on to send the summary request with the token.
C5_KeyCreationNeverFails ==
    [][\A i \in NewRequests :
          sent'[i].req.path = KeyPath =>
             /\ state'.api_key # None
             /\ exc' # "RequestException"
             /\ sent'[i].answer # "issued" =>
                   /\ state'.api_key = LocalToken(nkeys')
                   /\ \E k \in NewCalls :
                         /\ rt'[k].call = "save_agent_data"
                         /\ rt'[k].arg = [key |-> SaveKey(thread'), value |-> state']
                         /\ rt'[k].ok => store'[SaveKey(thread')] = Data(state')
                   /\ pc = "check" => pc' = "list"
                   /\ pc = "process" =>
                         /\ pc' = "reply"
                         /\ i < Len(sent')
                         /\ sent'[i + 1].req.path = SummaryPath
                         /\ sent'[i + 1].req.key = state'.api_key
      ]_vars

\* A key-creation request has failed, and the summary request that follows it
\* carries the locally generated token, which the store holds.
C5_Witness ==
    \E i \in Requests(KeyPath) :
        /\ sent[i].answer \in {"raise", "no_key"}
        /\ i < Len(sent)
        /\ sent[i + 1].req.path = SummaryPath
        /\ sent[i + 1].req.key = LocalToken(nkeys)
        /\ state.api_key = LocalToken(nkeys)
        /\ store[SaveKey(thread)] = Data(state)

\* C9: whatever the user message, once process_user_message has returned
\* without a runtime call having raised in it, the summary request has been
\* sent and the response is not the error message of its except clause.
C9_EveryMessageGetsASummaryRequest ==
    (pc = "reply" /\ \A i \in Calls("add_message") : rt[i].ok)
        => /\ Requests(SummaryPath) # {}
           /\ Head(response) # "An error occurred while processing your request: "

FirstReply == CHOOSE j \in Calls("add_reply") : \A k \in Calls("add_reply") : j <= k

\* C13: when the summary POST of a turn is answered success false with a
\* message m, the response, and the reply of the turn once it is emitted, is
\* "Unable to generate news summary: m" followed by the explanation with the
\* three possible causes, and is not the Markdown block.
C13_FailureReplyExplains ==
    \A i \in Requests(SummaryPath) :
        ( /\ sent[i].answer = "dict"
          /\ ~sent[i].data.success
          /\ sent[i].data.message # None )
        => /\ response =
                <<"Unable to generate news summary", ": ", sent[i].data.message,
                  "\n\n",
                  "This could be due to one of the following reasons:\n",
                  "1. The Lucid API server might be unavailable\n",
                  "2. There might be an issue with your API key\n",
                  "3. The query might be too complex or contain unsupported characters\n\n",
                  "Please try again with a simpler query, or try again later.">>
           /\ Head(response) # "# News Summary: "
           /\ pc # "reply" =>
                 /\ Calls("add_reply") # {}
                 /\ rt[FirstReply].arg = response

\* The turn has replied after the service answered success false, message
\* "quota exceeded".
C13_Witness ==
    /\ pc = "write_html"
    /\ \E i \in Requests(SummaryPath) :
          /\ sent[i].answer = "dict"
          /\ ~sent[i].data.success
          /\ sent[i].data.message = "quota exceeded"
    /\ rt[Len(rt)].call = "add_reply"
    /\ rt[Len(rt)].arg[3] = "quota exceeded"

\* The step starts a turn.
TurnStarts == turns' = turns + 1

\* C14: every load and every save of the session state in a turn uses the
\* thread's parent id when it has one and its own id otherwise, so the entry
\* under the id of a child thread is never written; and a turn on a child
\* thread that finds the entry of its root thread takes its state, key
\* included, from it and mints no key for its client.
C14_OneStoreKeyPerTurn ==
    /\ [](/\ \A i \in Calls("get_agent_data_by_key") :
                rt[i].arg = IF thread.parent_id # None THEN thread.parent_id
                            ELSE thread.id
          /\ \A i \in Calls("save_agent_data") :
                rt[i].arg.key = IF thread.parent_id # None THEN thread.parent_id
                                ELSE thread.id
          /\ \A th \in Threads : th.parent_id # None => store[th.id] = NoData)
    /\ [][( /\ TurnStarts
            /\ thread'.parent_id \in ThreadIds
            /\ store[thread'.parent_id].present
            /\ \E i \in DOMAIN rt' : rt'[i].call = "get_agent_data_by_key" /\ rt'[i].ok )
          => /\ state' = store[thread'.parent_id].value
             /\ client' = state'.api_key
             /\ sent' = <<>>
             /\ store' = store
       ]_vars

\* A turn on the child thread has loaded the state saved by a turn on its
\* root thread and, after a health check that did not pass, saved a new key.
C14_Witness ==
    /\ thread = [id |-> "t2", parent_id |-> "t1"]
    /\ turns = 2
    /\ \E i \in Calls("get_agent_data_by_key") : rt[i].arg = "t1" /\ rt[i].ok
    /\ \E i \in Calls("save_agent_data") : rt[i].arg.key = "t1" /\ rt[i].ok
    /\ store["t1"] = Data(state)
    /\ store["t2"] = NoData
    /\ Requests(KeyPath) # {}
    /\ sent[1].req.path = "/health"

\* The turn has answered a user message: the response of
\* process_user_message has been emitted as a reply.
Answered == response # <<>> /\ \E i \in Calls("add_reply") : rt[i].arg = response

\* The positions in rt of the write_file calls, and of those for one file.
Files == Calls("write_file")

FilesNamed(name) == {i \in Files : rt[i].arg.name = name}

\* Every write_file call of the turn comes after the reply and carries the
\* text of the reply; result.html is written at most once, and result.txt at
\* most once and only after result.html was written.
FilesFollowReply ==
    /\ \A i \in Files :
          /\ Answered
          /\ FirstReply < i
          /\ rt[FirstReply].arg = response
          /\ rt[i].arg.content = response
          /\ rt[i].arg.name \in {"result.html", "result.txt"}
    /\ Cardinality(FilesNamed("result.html")) <= 1
    /\ Cardinality(FilesNamed("result.txt")) <= 1
    /\ \A j \in FilesNamed("result.txt") :
          \E i \in FilesNamed("result.html") : i < j /\ rt[i].ok

\* Both files have been written.
BothWritten ==
    /\ Cardinality(Files) = 2
    /\ \E i \in FilesNamed("result.html") : rt[i].ok
    /\ \E i \in FilesNamed("result.txt") : rt[i].ok

\* C16, as stated: a turn that has answered a user message and is over has
\* written the text of the reply to result.html and to result.txt, after the
\* reply.
C16_ReplyAlsoWritten ==
    /\ FilesFollowReply
    /\ (Answered /\ TurnOver) => BothWritten

\* C16, amended: the files are written after the reply and with its text;
\* a turn that has answered a user message and has left the two writes behind
\* has written both files unless a write_file call raised, and then the call
\* that raised is the last write_file call of the turn and the except clause
\* of run takes over.
C16_ReplyWrittenUnlessWriteFails ==
    /\ FilesFollowReply
    /\ (Answered /\ pc \notin {"write_html", "write_txt"})
          => \/ BothWritten
             \/ /\ \E i \in Files : ~rt[i].ok /\ \A k \in Files : k <= i
                /\ pc \in {"agent_except", "run_except", "returned", "escaped"}
                /\ pc \in {"run_except", "returned", "escaped"}
                      => \E k \in Calls("add_reply") :
                            k > FirstReply /\ rt[k].arg = ErrorReply("RuntimeError")

\* A turn has answered a user message, written both files and returned.
C16_Witness ==
    /\ pc = "returned"
    /\ Answered
    /\ BothWritten
    /\ Head(response) = "# News Summary: "

\* The step holds one call of check_api_key, which has returned.
ChecksKey == Len(checks') = Len(checks) + 1

\* The step has put a key issued by the service into the session state.
InstallsIssuedKey ==
    /\ state'.api_key # state.api_key
    /\ \E n \in 1..nkeys' : state'.api_key = ServerKey(n)

\* C19: check_api_key returns True when the health check answered healthy or
\* the call installed a key issued by the service, and False in every other
\* case, as when the key it leaves in use is a token generated locally.
C19_TrueIffKeyValid ==
    [][ChecksKey =>
          (checks'[Len(checks')].ret
              <=> (checks'[Len(checks')].health = "healthy" \/ InstallsIssuedKey))]_vars

(***************************************************************************)
(* Turns with a healthy service, key creation that succeeds and a reliable *)
(* store: the steps of Next in which every health check is answered        *)
(* healthy, every key-creation request is answered with a key, and         *)
(* get_thread and the calls on the store return.  The other calls on the   *)
(* runtime and the summary requests fail as before.                        *)
(***************************************************************************)
ReliableStep ==
    /\ \A i \in NewRequests :
          /\ sent'[i].req.path = "/health" => sent'[i].answer = "healthy"
          /\ sent'[i].req.path = KeyPath => sent'[i].answer = "issued"
    /\ \A i \in NewCalls :
          rt'[i].call \in {"get_thread", "get_agent_data_by_key", "save_agent_data"}
             => rt'[i].ok

ReliableNext ==
    \/ Construct /\ ReliableStep
    \/ RunCheckApiKey /\ ReliableStep
    \/ ListMessages /\ ReliableStep
    \/ ProcessMessage /\ ReliableStep
    \/ AddReply /\ ReliableStep
    \/ WriteHtml /\ ReliableStep
    \/ WriteTxt /\ ReliableStep
    \/ RequestUserInput /\ ReliableStep
    \/ AgentExcept /\ ReliableStep
    \/ RunExcept /\ ReliableStep

ReliableSpec == Init /\ [][ReliableNext]_vars

\* C20: over turns run one after another on threads with the same root, with
\* the service healthy, key creation succeeding and the store reliable, the
\* first turn sends one key-creation request and every later turn none; one
\* key is minted in all, it is the key stored under the root id, and every
\* turn uses it for its session state, its client and its requests.
C20_OneKeyRequestInAll ==
    /\ turns = 0 => nkeys = 0 /\ sent = <<>>
    /\ turns = 1 => Cardinality(Requests(KeyPath)) = 1
    /\ turns >= 2 => Requests(KeyPath) = {}
    /\ turns >= 1 =>
          /\ nkeys = 1
          /\ state.api_key = ServerKey(1)
          /\ client = ServerKey(1)
          /\ store["t1"].present
          /\ store["t1"].value.api_key = ServerKey(1)
          /\ store["t2"] = NoData
          /\ \A i \in DOMAIN sent \ Requests(KeyPath) : sent[i].req.key = ServerKey(1)

\* The second turn, on the child thread, has returned after a health check and
\* a summary request under the key of the first turn, with no key request.
C20_Witness ==
    /\ turns = 2
    /\ thread = [id |-> "t2", parent_id |-> "t1"]
    /\ pc = "returned"
    /\ Requests(KeyPath) = {}
    /\ Requests("/health") # {}
    /\ \E i \in Requests(SummaryPath) : sent[i].req.key = ServerKey(1) /\ sent[i].answer = "dict"
    /\ nkeys = 1

(***************************************************************************)
(* The summary calls on their own: every combination of arguments and      *)
(* answers of the service, and one call of either method.                  *)
(***************************************************************************)
InsightIds == (0..MaxInsightId) \cup {42}

PostAnswers ==
    {PostAnswer("raise", FALSE, FALSE, 0, None),
     PostAnswer("list", FALSE, FALSE, 0, None),
     PostAnswer("dict", FALSE, FALSE, 0, "no data"),
     PostAnswer("dict", FALSE, FALSE, 0, None),
     PostAnswer("dict", TRUE, FALSE, 0, None)}
    \cup {PostAnswer("dict", TRUE, TRUE, n, None) : n \in InsightIds}

GetAnswers ==
    {GetAnswer("raise", FALSE, <<>>),
     GetAnswer("list", FALSE, <<>>),
     GetAnswer("dict", FALSE, <<>>),
     GetAnswer("dict", TRUE, <<"">>),
     GetAnswer("dict", TRUE, <<"Markets rallied.">>),
     GetAnswer("dict", TRUE, <<"Unable to generate news summary", " in time, so here is yesterday's.">>)}

Timespans == {<<"2", "4", "h">>, <<"7", "d">>, <<"4", "8">>, <<"7", "D">>, <<"h">>, <<>>}

Queries == {"ai regulation", ""}

TopicsArgs == {TopicsArg(FALSE, <<>>), TopicsArg(TRUE, <<>>),
               TopicsArg(TRUE, <<"policy", "tech">>)}

ClientInit ==
    /\ cIn \in [key : {None, "srv1"}, query : Queries, topics : TopicsArgs,
                timespan : Timespans, post : PostAnswers, get : GetAnswers]
    /\ cOut = NoCall
    /\ pIn = <<>>
    /\ pOut = NoResult
    /\ TurnIdle
    /\ ConcIdle
    /\ TweetIdle

\* client.create_news_summary(query, topics, timespan)
CallNewsSummary ==
    /\ cOut = NoCall
    /\ LET r == CreateNewsSummary(cIn.key, cIn.query, cIn.topics, cIn.timespan,
                                  cIn.post, cIn.get)
       IN  cOut' = [method |-> "create_news_summary", result |-> r.result, sent |-> r.sent]
    /\ UNCHANGED <<cIn, parseVars, turnVars, concVars, tweetVars>>

\* client.create_stream_news_summary(stream_ids, workspace_id, timespan, user_prompt)
CallStreamNewsSummary ==
    /\ cOut = NoCall
    /\ LET r == CreateStreamNewsSummary(cIn.key, <<1, 2>>, 1, cIn.timespan, cIn.query,
                                        cIn.post, cIn.get)
       IN  cOut' = [method |-> "create_stream_news_summary", result |-> r.result,
                    sent |-> r.sent]
    /\ UNCHANGED <<cIn, parseVars, turnVars, concVars, tweetVars>>

ClientNext == CallNewsSummary \/ CallStreamNewsSummary

ClientSpec == ClientInit /\ [][ClientNext]_vars

(***************************************************************************)
(* Properties of the summary calls, over ClientSpec.                       *)
(***************************************************************************)
HasCalled == cOut # NoCall

\* C2: neither summary call raises; whatever the answers to its requests
\* (the POST raising, answering no mapping, success false, success without
\* an id, success with an id and any answer to the retrieval of the insight,
\* whose content is text), the call returns a text.
C2_SummaryCallsReturnText ==
    HasCalled => /\ ~cOut.result.raised
                 /\ cOut.result.value \in Seq(STRING)
                 /\ cOut.result.value # <<>>

\* create_news_summary has returned a text after the POST got an answer that
\* is no mapping.
C2_Witness ==
    /\ HasCalled
    /\ cOut.method = "create_news_summary"
    /\ cIn.post.kind = "list"
    /\ ~cOut.result.raised
    /\ Head(cOut.result.value) = "Unable to generate news summary"

\* C12: for every insight id n, when the POST answers success with
\* insight_id n and the retrieval of the insight raises, answers no mapping,
\* or answers without content or with empty content, create_news_summary
\* returns exactly "News summary generated successfully. Insight ID: n".
C12_FallbackNamesInsight ==
    ( /\ HasCalled
      /\ cOut.method = "create_news_summary"
      /\ cIn.post.kind = "dict" /\ cIn.post.success /\ cIn.post.has_id
      /\ \/ cIn.get.kind # "dict"
         \/ ~cIn.get.has_content
         \/ cIn.get.content = <<"">> )
    => /\ ~cOut.result.raised
       /\ cOut.result.value = <<"News summary generated successfully. Insight ID: ",
                                ToString(cIn.post.insight_id)>>

\* The timeframe in the body of the summary POST of the call.
SentTimeframe == cOut.sent[1].req.body.timeframe

\* C15: in both summary calls, a timespan that ends in "h" or in "d" is sent
\* as the timeframe unchanged, any other non-empty timespan is sent followed
\* by "h"; the two methods agree, and normalizing the timeframe sent changes
\* nothing.
C15_TimespanNormalization ==
    HasCalled =>
        LET s == cIn.timespan
            ends == s # <<>> /\ s[Len(s)] \in {"h", "d"}
        IN  /\ cOut.sent[1].req.method = "POST"
            /\ (s # <<>> /\ ends) => SentTimeframe = s
            /\ (s # <<>> /\ ~ends) => SentTimeframe = s \o <<"h">>
            /\ Timeframe(s) = StreamTimeframe(s)
            /\ Timeframe(SentTimeframe) = SentTimeframe
            /\ StreamTimeframe(SentTimeframe) = SentTimeframe

\* create_stream_news_summary has sent "7d" unchanged.
C15_Witness ==
    /\ HasCalled
    /\ cOut.method = "create_stream_news_summary"
    /\ cIn.timespan = <<"7", "d">>
    /\ SentTimeframe = <<"7", "d">>

\* C18: a call of create_news_summary sends one POST to
\* /generate_keyword_news_summary, first, with the query as user_prompt, the
\* normalized timespan as timeframe and workspace_id 1, and after it nothing
\* or one GET /insights/{id}; the GET follows only a success answer that
\* carries an insight id, and asks for that id; no request is sent twice.
C18_OnePostAtMostOneGet ==
    (HasCalled /\ cOut.method = "create_news_summary") =>
        LET s == cIn.timespan
            req == cOut.sent[1].req
        IN  /\ Len(cOut.sent) \in {1, 2}
            /\ req.method = "POST"
            /\ req.path = SummaryPath
            /\ req.body.user_prompt = cIn.query
            /\ req.body.timeframe = IF s # <<>> /\ s[Len(s)] \in {"h", "d"}
                                    THEN s ELSE s \o <<"h">>
            /\ req.body.workspace_id = 1
            /\ DOMAIN req.body = {"user_prompt", "timeframe", "workspace_id"}
            /\ Len(cOut.sent) = 2 =>
                  /\ cOut.sent[2].req.method = "GET"
                  /\ cOut.sent[2].req.path = "/insights/{id}"
                  /\ cOut.sent[2].req.body.id = cIn.post.insight_id
                  /\ cIn.post.kind = "dict"
                  /\ cIn.post.success
                  /\ cIn.post.has_id

\* create_news_summary has sent the POST and, after the answer success with
\* insight id 1, the GET for insight 1.
C18_Witness ==
    /\ HasCalled
    /\ cOut.method = "create_news_summary"
    /\ cIn.post.insight_id = 1
    /\ cIn.timespan = <<"4", "8">>
    /\ Len(cOut.sent) = 2
    /\ cOut.sent[1].req.body.timeframe = <<"4", "8", "h">>
    /\ cOut.sent[2].req.method = "GET"
    /\ cOut.sent[2].req.body.id = 1

ConcM(th) ==
    [state |-> conc[th.id].state, client |-> conc[th.id].client, store |-> store,
     nkeys |-> nkeys, rt |-> <<>>, sent |-> <<>>, checks |-> <<>>]

\* What a step of the turn on th leaves.  seen is the entry of the store as
\* the turn last read or wrote it.  The turns of run(env) one after another
\* are not part of this.
ConcSet(th, m, next) ==
    /\ UNCHANGED <<pc, thread, state, client, rt, sent, checks, last_message,
                   response, exc, pastFaults, parseVars, clientVars, tweetVars>>
    /\ store' = m.store
    /\ nkeys' = m.nkeys
    /\ conc' = [conc EXCEPT ![th.id] =
                   [pc |-> next, state |-> m.state, client |-> m.client,
                    seen |-> IF \E i \in DOMAIN m.rt :
                                    m.rt[i].call \in {"get_agent_data_by_key",
                                                      "save_agent_data"}
                             THEN m.store[LoadKey(th)] ELSE @.seen,
                    calls |-> m.rt, requests |-> m.sent]]

\* NewsAgent.__init__, line 54: a turn starts on th and loads its state.
ConcLoad(th) ==
    /\ conc[th.id].pc = "idle"
    /\ turns < MaxTurns
    /\ turns' = turns + 1
    /\ ConcSet(th, InitializeState([ConcM(th) EXCEPT !.state = DefaultState,
                                                    !.client = None], th, TRUE),
               "init")

\* NewsAgent.__init__, line 55: the client is built, with a new key when the
\* state holds none.
ConcInitClient(th) ==
    /\ conc[th.id].pc = "init"
    /\ \E answer \in KeyAnswers :
          ConcSet(th, InitializeLucidClient(ConcM(th), th, answer, TRUE).m, "check")
    /\ UNCHANGED turns

\* The credential checks of the turn: at startup (line 314) and before the
\* summary request (line 218), after which the turn ends.
ConcCheck(th) ==
    /\ conc[th.id].pc \in {"check", "generate"}
    /\ \E health \in HealthAnswers, answer \in KeyAnswers :
          ConcSet(th, CheckApiKey(ConcM(th), th, health, answer, TRUE).m,
                  IF conc[th.id].pc = "check" THEN "generate" ELSE "idle")
    /\ UNCHANGED turns

ConcNext ==
    \E th \in Threads :
        \/ ConcLoad(th)
        \/ ConcInitClient(th)
        \/ ConcCheck(th)

ConcSpec == Init /\ [][ConcNext]_vars

(***************************************************************************)
(* Properties of turns in progress at once, over ConcSpec.                 *)
(***************************************************************************)
\* The step is one of the turn on th, and saves the session state.
ConcSaves(th) ==
    /\ conc'[th.id] # conc[th.id]
    /\ \E i \in DOMAIN conc'[th.id].calls :
          conc'[th.id].calls[i].call = "save_agent_data"

\* C11: with at most one turn in progress per thread id, a turn that saves
\* the session state overwrites the entry as it last read or wrote it: no
\* key another turn saved in between is lost.
C11_NoLostUpdate ==
    [][\A th \in Threads :
          ConcSaves(th) => store[SaveKey(th)] = conc[th.id].seen]_vars

(***************************************************************************)
(* twitter_client.py: the four operations that post a tweet.               *)
(***************************************************************************)
\* The longest tweet text tried.
MaxTweetLen == 283

\* len(text) > 280, and text[:277]
TweetLimit == 280

KeptChars == 277

\* "..."
Ellipsis == <<".", ".", ".">>

TweetAlphabet == <<"a", ".", "b", " ", "c">>

\* A text of n characters; its characters change with the position and with k.
TweetText(n, k) == [i \in 1..n |-> TweetAlphabet[((i + k) % Len(TweetAlphabet)) + 1]]

TweetTexts == {TweetText(n, k) : n \in 0..MaxTweetLen, k \in 0..1}

\* A call on the tweepy clients: media_upload(filename), update_status(status,
\* media_ids) of the synchronous client, create_tweet(text, media_ids) of the
\* asynchronous one.
ApiCall(name, text, media, ok) == [call |-> name, text |-> text, media |-> media, ok |-> ok]

\* The text of the response of update_status, which the service chooses.
ResponseText == <<"response.text">>

TweetReturned(text) == [raised |-> FALSE, text |-> text]

\* The except clauses log and raise again.
TweetRaised == [raised |-> TRUE, text |-> <<>>]

\* lines 64-89
PostTweet(text, postOk) ==
    LET status == IF Len(text) > TweetLimit THEN SubSeq(text, 1, KeptChars) \o Ellipsis
                  ELSE text
    IN  [api |-> <<ApiCall("update_status", status, FALSE, postOk)>>,
         result |-> IF postOk THEN TweetReturned(ResponseText) ELSE TweetRaised]

\* lines 91-126
PostTweetWithMedia(text, uploadOk, postOk) ==
    LET status == IF Len(text) > TweetLimit THEN SubSeq(text, 1, KeptChars) \o Ellipsis
                  ELSE text
        upload == ApiCall("media_upload", <<>>, TRUE, uploadOk)
    IN  IF ~uploadOk THEN [api |-> <<upload>>, result |-> TweetRaised]
        ELSE [api |-> <<upload, ApiCall("update_status", status, TRUE, postOk)>>,
              result |-> IF postOk THEN TweetReturned(ResponseText) ELSE TweetRaised]

\* lines 128-153
PostTweetAsync(text, postOk) ==
    LET posted == IF Len(text) > TweetLimit THEN SubSeq(text, 1, KeptChars) \o Ellipsis
                  ELSE text
    IN  [api |-> <<ApiCall("create_tweet", posted, FALSE, postOk)>>,
         result |-> IF postOk THEN TweetReturned(posted) ELSE TweetRaised]

\* A post_tweet_with_media_async that shortens the text it returns only.
PostTweetWithMediaAsync_ShortensAfter(text, uploadOk, postOk) ==
    LET posted == IF Len(text) > TweetLimit THEN SubSeq(text, 1, KeptChars) \o Ellipsis
                  ELSE text
        upload == ApiCall("media_upload", <<>>, TRUE, uploadOk)
    IN  IF ~uploadOk THEN [api |-> <<upload>>, result |-> TweetRaised]
        ELSE [api |-> <<upload, ApiCall("create_tweet", text, TRUE, postOk)>>,
              result |-> IF postOk THEN TweetReturned(posted) ELSE TweetRaised]

\* lines 155-190
PostTweetWithMediaAsync(text, uploadOk, postOk) ==
    LET posted == IF Len(text) > TweetLimit THEN SubSeq(text, 1, KeptChars) \o Ellipsis
                  ELSE text
        upload == ApiCall("media_upload", <<>>, TRUE, uploadOk)
    IN  IF ~uploadOk THEN [api |-> <<upload>>, result |-> TweetRaised]
        ELSE [api |-> <<upload, ApiCall("create_tweet", posted, TRUE, postOk)>>,
              result |-> IF postOk THEN TweetReturned(posted) ELSE TweetRaised]

\* One call of one of the four operations, on every text and with every
\* outcome of the upload and of the post.
TweetInit ==
    /\ tIn \in [text : TweetTexts, uploadOk : BOOLEAN, postOk : BOOLEAN]
    /\ tOut = NoTweet
    /\ pIn = <<>>
    /\ pOut = NoResult
    /\ cIn = None
    /\ cOut = NoCall
    /\ TurnIdle
    /\ ConcIdle

TweetSet(method, r) ==
    /\ tOut = NoTweet
    /\ tOut' = [method |-> method, api |-> r.api, result |-> r.result]
    /\ UNCHANGED <<tIn, parseVars, clientVars, turnVars, concVars>>

CallPostTweet ==
    TweetSet("post_tweet", PostTweet(tIn.text, tIn.postOk))

CallPostTweetWithMedia ==
    TweetSet("post_tweet_with_media",
             PostTweetWithMedia(tIn.text, tIn.uploadOk, tIn.postOk))

CallPostTweetAsync ==
    TweetSet("post_tweet_async", PostTweetAsync(tIn.text, tIn.postOk))

CallPostTweetWithMediaAsync ==
    TweetSet("post_tweet_with_media_async",
             PostTweetWithMediaAsync(tIn.text, tIn.uploadOk, tIn.postOk))

TweetNext ==
    \/ CallPostTweet
    \/ CallPostTweetWithMedia
    \/ CallPostTweetAsync
    \/ CallPostTweetWithMediaAsync

TweetSpec == TweetInit /\ [][TweetNext]_vars

(***************************************************************************)
(* Properties of the posting operations, over TweetSpec.                   *)
(***************************************************************************)
HasTweeted == tOut # NoTweet

\* The positions in tOut.api of the calls that post.
Posts == {i \in DOMAIN tOut.api : tOut.api[i].call \in {"update_status", "create_tweet"}}

\* C17: in each of the four operations the text handed to the posting call,
\* not only the text returned, is the text given when that has at most 280
\* characters, and otherwise its first 277 characters followed by "...", 280
\* characters in all; so no posted text is longer than 280 characters.
C17_TruncatedBeforePosting ==
    HasTweeted =>
        /\ Cardinality(Posts) <= 1
        /\ \A i \in Posts :
              LET posted == tOut.api[i].text
                  n == Len(tIn.text)
              IN  /\ Len(posted) <= 280
                  /\ n <= 280 => posted = tIn.text
                  /\ n > 280 =>
                        /\ Len(posted) = 280
                        /\ \A j \in 1..277 : posted[j] = tIn.text[j]
                        /\ \A j \in 278..280 : posted[j] = "."
                  /\ (tOut.method \in {"post_tweet_async", "post_tweet_with_media_async"}
                      /\ ~tOut.result.raised) => tOut.result.text = posted
        /\ (tOut.method \in {"post_tweet", "post_tweet_async"} \/ tIn.uploadOk)
              => Posts # {}

\* post_tweet_with_media_async has posted a text of 281 characters as 280.
C17_Witness ==
    /\ HasTweeted
    /\ tOut.method = "post_tweet_with_media_async"
    /\ Len(tIn.text) = 281
    /\ tIn.text[278] # "."
    /\ \E i \in Posts : Len(tOut.api[i].text) = 280 /\ tOut.api[i].text[278] = "."
    /\ ~tOut.result.raised

====
